---- MODULE Spec2Model ----
(***************************************************************************)
(* DatasetForCSDI (pypots/imputation/csdi/data.py): the per-index sample   *)
(* assembly of the CSDI dataset, in its two storage modes                  *)
(* (_fetch_data_from_array over a loaded dict, _fetch_data_from_file over  *)
(* a lazily opened file handle).                                           *)
(*                                                                         *)
(* A tensor / ndarray is a record [dtype, ndim, v, nan]: v is always a     *)
(* sequence of rows of integers (a 0-d tensor is <<<<x>>>>, a 1-d tensor   *)
(* one row), ndim tells the three apart, and nan is the set of <<r, c>>    *)
(* positions that hold NaN (v holds 0 there).  All values are small        *)
(* integers, which float32, float64 and int64 represent exactly, so a cast *)
(* changes the dtype and keeps the values.                                 *)
(***************************************************************************)
EXTENDS Integers, Sequences, FiniteSets

\* Bounds of the model.
NSamples == 2      \* samples in the data source
NSteps == 2        \* time steps of a sample
MaxHide == 1       \* cells one masker call hides at most
MaxOpens == 2      \* cap of the per-instance count of handle openings

\* A single feature column; masks are per (step, feature) cell.
Features == {1}
NFeatures == Cardinality(Features)

\* One in-memory instance and two file-backed instances (one per worker),
\* all built over the same underlying data.
Instances == {"mem", "w1", "w2"}
IsFileBacked(i) == i \in {"w1", "w2"}

OptionalKeys == {"time_points", "for_pattern_mask", "cut_length", "y"}

\* Missing rates in percent: 0 (mask nothing) and the constructor's default.
Rates == {0, 10}

VARIABLES
    data,          \* self.data / the content of the file: key -> array of rows
    return_labels, \* self.return_labels
    rate,          \* self.rate, in percent
    live,          \* the dataset instances that exist
    file_handle,   \* self.file_handle of each instance
    opens,         \* history: calls of _open_file_handle by each instance
    called,        \* history: whether each instance has been asked for a sample
    out,           \* history: the latest fetch (instance, idx, masker result, outcome)
    repeated       \* history: the latest fetch returned a sample for the instance and idx
                   \* of the fetch before it, from a different masker result

vars == <<data, return_labels, rate, live, file_handle, opens, called, out, repeated>>

----------------------------------------------------------------------------
\* Tensors.

Tensor(dtype, ndim, v, nan) == [dtype |-> dtype, ndim |-> ndim, v |-> v, nan |-> nan]

\* x.to(dtype) / .long() / torch.from_numpy(x).to(dtype)
To(x, dtype) == [x EXCEPT !.dtype = dtype]

\* torch.tensor(idx): a 0-d int64 tensor
ScalarTensor(x) == Tensor("int64", 0, << <<x>> >>, {})

\* len(t): the size of the first dimension
TLen(t) == IF t.ndim = 1 THEN Len(t.v[1]) ELSE Len(t.v)

ArangeFromOne(n) == Tensor("float32", 1, << [s \in 1..n |-> s] >>, {})

\* torch.arange(0, n, dtype=torch.float32)
Arange(n) == Tensor("float32", 1, << [s \in 1..n |-> s - 1] >>, {})

\* torch.zeros(n): float32 zeros
Zeros(n) == Tensor("float32", 1, << [s \in 1..n |-> 0] >>, {})

\* a + b, elementwise, for two tensors of one shape
TAdd(a, b) ==
    [a EXCEPT !.v = [r \in 1..Len(a.v) |-> [c \in 1..Len(a.v[r]) |-> a.v[r][c] + b.v[r][c]]]]

InRangeStrictLow(arr, idx) == -Len(arr) < idx /\ idx < Len(arr)

\* arr[idx] with Python's indexing: -n..-1 count from the end, anything
\* outside -n..n-1 raises IndexError.
InRange(arr, idx) == -Len(arr) <= idx /\ idx < Len(arr)
GetItem(arr, idx) == IF idx >= 0 THEN arr[idx + 1] ELSE arr[Len(arr) + idx + 1]

----------------------------------------------------------------------------
\* The data source.

Cells == (1..NSteps) \X Features

\* NaN patterns of X: nothing missing, or the first step of sample 0 missing.
NanPatterns == {{}, {<<0, 1, f>> : f \in Features}}

XRow(i, nanp) ==
    Tensor("float64", 2,
           [s \in 1..NSteps |-> [f \in 1..NFeatures |->
               IF <<i, s, f>> \in nanp THEN 0 ELSE 10 * (i + 1) + s]],
           {c \in Cells : <<i, c[1], c[2]>> \in nanp})

TimePointsRow(i) == Tensor("float64", 1, << [s \in 1..NSteps |-> 100 * (i + 1) + 3 * s] >>, {})

PatternRow(i) ==
    Tensor("float64", 2, [s \in 1..NSteps |-> [f \in 1..NFeatures |-> (i + s) % 2]], {})

CutLengthRow(i) == Tensor("int64", 1, << <<i + 1>> >>, {})

LabelRow(i) == Tensor("int32", 0, << <<7 + i>> >>, {})

KeyArray(k, nanp) ==
    [n \in 1..NSamples |->
        CASE k = "X" -> XRow(n - 1, nanp)
          [] k = "time_points" -> TimePointsRow(n - 1)
          [] k = "for_pattern_mask" -> PatternRow(n - 1)
          [] k = "cut_length" -> CutLengthRow(n - 1)
          [] k = "y" -> LabelRow(n - 1)]

MakeData(keys, nanp) == [k \in {"X"} \cup keys |-> KeyArray(k, nanp)]

DataSets == {MakeData(keys, nanp) : keys \in SUBSET OptionalKeys, nanp \in NanPatterns}

\* BaseDataset attributes.
n_steps == Len(data["X"][1].v)
y_is_None == "y" \notin DOMAIN data
DatasetLen == Len(data["X"])

----------------------------------------------------------------------------
\* pygrinder.mcar(X, p): hide is the set of cells the call's random draw
\* selects (rand < p), so nothing when p = 0.

HideChoices(p) ==
    IF p = 0 THEN {{}} ELSE {h \in SUBSET Cells : Cardinality(h) <= MaxHide}

Mask(X, S) ==
    Tensor("float32", X.ndim,
           [r \in 1..Len(X.v) |-> [c \in 1..Len(X.v[r]) |-> IF <<r, c>> \in S THEN 1 ELSE 0]],
           {})

mcar(X, hide) ==
    LET all == UNION {{<<r, c>> : c \in 1..Len(X.v[r])} : r \in 1..Len(X.v)}
        observed == all \ X.nan
    IN  [X_intact |-> [X EXCEPT !.nan = {}],
         X |-> [X EXCEPT !.nan = {},
                         !.v = [r \in 1..Len(X.v) |-> [c \in 1..Len(X.v[r]) |->
                                   IF <<r, c>> \in hide THEN 0 ELSE X.v[r][c]]]],
         missing_mask |-> Mask(X, observed \ hide),
         indicating_mask |-> Mask(X, observed \cap hide)]

----------------------------------------------------------------------------
\* _fetch_data_from_array

ArrayObservedMaskTwice(m) == TAdd(m.missing_mask, m.missing_mask)

ArrayObservedMask(m) == TAdd(m.missing_mask, m.indicating_mask)

ArrayGtMask(m) == m.missing_mask

ArrayObservedTp(idx) ==
    IF "time_points" \notin DOMAIN data
    THEN Arange(n_steps)
    ELSE To(GetItem(data["time_points"], idx), "float32")

ArrayForPatternMaskAlwaysGt(gt_mask, idx) == gt_mask

ArrayForPatternMask(gt_mask, idx) ==
    IF "for_pattern_mask" \notin DOMAIN data
    THEN gt_mask
    ELSE To(GetItem(data["for_pattern_mask"], idx), "float32")

ArrayCutLengthFloatZeros(observed_data, idx) ==
    IF "cut_length" \notin DOMAIN data
    THEN Zeros(TLen(observed_data))
    ELSE To(GetItem(data["cut_length"], idx), "float32")

ArrayCutLength(observed_data, idx) ==
    IF "cut_length" \notin DOMAIN data
    THEN To(Zeros(TLen(observed_data)), "int64")
    ELSE To(GetItem(data["cut_length"], idx), "float32")

ArraySample(idx, observed_data, observed_mask, observed_tp, gt_mask, for_pattern_mask, cut_length) ==
    << ScalarTensor(idx), observed_data, observed_mask, observed_tp,
       gt_mask, for_pattern_mask, cut_length >>

ArrayLabelsAlways(sample, idx) ==
    IF ~y_is_None
    THEN Append(sample, To(GetItem(data["y"], idx), "int64"))
    ELSE sample

ArrayLabels(sample, idx) ==
    IF ~y_is_None /\ return_labels
    THEN Append(sample, To(GetItem(data["y"], idx), "int64"))
    ELSE sample

_fetch_data_from_array(idx, m) ==
    LET observed_data == m.X_intact
        gt_mask == ArrayGtMask(m)
    IN  ArrayLabels(
            ArraySample(idx, observed_data, ArrayObservedMask(m), ArrayObservedTp(idx),
                        gt_mask, ArrayForPatternMask(gt_mask, idx),
                        ArrayCutLength(observed_data, idx)),
            idx)

----------------------------------------------------------------------------
\* _fetch_data_from_file

NoHandle == [opened |-> FALSE, owner |-> "", gen |-> 0]

\* BaseDataset._open_file_handle: a fresh handle on the file, owned by i
_open_file_handle(i) == [opened |-> TRUE, owner |-> i, gen |-> opens[i] + 1]

AlwaysOpen(i) == _open_file_handle(i)

\* if self.file_handle is None: self.file_handle = self._open_file_handle()
EnsureHandle(i) ==
    IF file_handle[i] = NoHandle THEN _open_file_handle(i) ELSE file_handle[i]

\* Only the fetching instance's attribute is assigned.
AssignHandle(i, h) == [file_handle EXCEPT ![i] = h]

\* What an open handle reads: the arrays of the file, which holds the same data.
FileKeys == DOMAIN data
FileRead(k) == data[k]

FileObservedMask(m) == TAdd(m.missing_mask, m.indicating_mask)

FileGtMask(m) == m.indicating_mask

FileObservedTp(idx) ==
    IF "time_points" \notin FileKeys
    THEN Arange(n_steps)
    ELSE To(GetItem(FileRead("time_points"), idx), "float32")

FileForPatternMaskAlwaysGt(gt_mask, idx) == gt_mask

FileForPatternMask(gt_mask, idx) ==
    IF "for_pattern_mask" \notin FileKeys
    THEN gt_mask
    ELSE To(GetItem(FileRead("for_pattern_mask"), idx), "float32")

FileCutLength(observed_data, idx) ==
    IF "cut_length" \notin FileKeys
    THEN To(Zeros(TLen(observed_data)), "int64")
    ELSE To(GetItem(FileRead("cut_length"), idx), "float32")

FileSampleSwapped(idx, observed_data, observed_mask, observed_tp, gt_mask, for_pattern_mask, cut_length) ==
    << ScalarTensor(idx), observed_data, gt_mask, observed_tp,
       observed_mask, for_pattern_mask, cut_length >>

FileSample(idx, observed_data, observed_mask, observed_tp, gt_mask, for_pattern_mask, cut_length) ==
    << ScalarTensor(idx), observed_data, observed_mask, observed_tp,
       gt_mask, for_pattern_mask, cut_length >>

FileLabels(sample, idx) ==
    IF "y" \in FileKeys /\ return_labels
    THEN Append(sample, To(GetItem(FileRead("y"), idx), "int64"))
    ELSE sample

_fetch_data_from_file(idx, m) ==
    LET observed_data == m.X_intact
        gt_mask == FileGtMask(m)
    IN  FileLabels(
            FileSample(idx, observed_data, FileObservedMask(m), FileObservedTp(idx),
                       gt_mask, FileForPatternMask(gt_mask, idx),
                       FileCutLength(observed_data, idx)),
            idx)

----------------------------------------------------------------------------------------------------------------------------------------
\* Outcomes of a fetch.

NoMasks == [X_intact |-> Zeros(0), X |-> Zeros(0),
            missing_mask |-> Zeros(0), indicating_mask |-> Zeros(0)]

NoCall == [inst |-> "", status |-> "none", idx |-> 0, m |-> NoMasks, sample |-> <<>>]
Returned(i, idx, m, sample) ==
    [inst |-> i, status |-> "ok", idx |-> idx, m |-> m, sample |-> sample]
Raised(i, idx) ==
    [inst |-> i, status |-> "IndexError", idx |-> idx, m |-> NoMasks, sample |-> <<>>]

Repeats(before, after) ==
    /\ before.status = "ok"
    /\ after.status = "ok"
    /\ after.inst = before.inst
    /\ after.idx = before.idx
    /\ after.m # before.m

\* The indices a caller may pass: every valid one and the first invalid one
\* on either side.
IdxRange == (-(NSamples + 1))..NSamples

----------------------------------------------------------------------------
\* Actions.

InitWith(insts) ==
    /\ data \in DataSets
    /\ return_labels \in BOOLEAN
    /\ rate \in Rates
    /\ live = insts
    /\ file_handle = [i \in Instances |-> NoHandle]
    /\ opens = [i \in Instances |-> 0]
    /\ called = [i \in Instances |-> FALSE]
    /\ out = NoCall
    /\ repeated = FALSE

Init == InitWith({"mem", "w1"})

InitWorkers == InitWith({"w1", "w2"})

FetchFromArray(i, idx) ==
    /\ i \in live
    /\ ~IsFileBacked(i)
    /\ called' = [called EXCEPT ![i] = TRUE]
    /\ IF InRange(data["X"], idx)
       THEN \E hide \in HideChoices(rate) :
               LET m == mcar(To(GetItem(data["X"], idx), "float32"), hide)
               IN  out' = Returned(i, idx, m, _fetch_data_from_array(idx, m))
       ELSE out' = Raised(i, idx)
    /\ repeated' = Repeats(out, out')
    /\ UNCHANGED <<data, return_labels, rate, live, file_handle, opens>>

FetchFromFile(i, idx) ==
    /\ i \in live
    /\ IsFileBacked(i)
    /\ opens[i] < MaxOpens    \* keeps the history counter finite
    /\ called' = [called EXCEPT ![i] = TRUE]
    /\ LET h == EnsureHandle(i)
       IN  /\ file_handle' = AssignHandle(i, h)
           /\ opens' = [opens EXCEPT ![i] = IF h = file_handle[i] THEN @ ELSE @ + 1]
    /\ IF InRange(FileRead("X"), idx)
       THEN \E hide \in HideChoices(rate) :
               LET m == mcar(To(GetItem(FileRead("X"), idx), "float32"), hide)
               IN  out' = Returned(i, idx, m, _fetch_data_from_file(idx, m))
       ELSE out' = Raised(i, idx)
    /\ repeated' = Repeats(out, out')
    /\ UNCHANGED <<data, return_labels, rate, live>>

Next ==
    \E i \in Instances, idx \in IdxRange :
        \/ FetchFromArray(i, idx)
        \/ FetchFromFile(i, idx)

NextWorkers == \E i \in Instances, idx \in IdxRange : FetchFromFile(i, idx)

Spec == Init /\ [][Next]_vars

SpecWorkers == InitWorkers /\ [][NextWorkers]_vars

----------------------------------------------------------------------------
\* Properties.

\* The latest fetch returned a sample for an index in 0 .. length - 1.
Fetched == out.status = "ok" /\ 0 <= out.idx /\ out.idx < DatasetLen

OnArray == out.inst = "mem"
OnFile == out.inst \in {"w1", "w2"}

\* Row idx of an array of the source, and that row as the fetch casts it.
SourceRow(k) == data[k][out.idx + 1]
SourceRowAs(k, dtype) == [SourceRow(k) EXCEPT !.dtype = dtype]

HasLabels == "y" \in DOMAIN data
IntegerTypes == {"int32", "int64"}
FloatTypes == {"float32", "float64"}

\* The cells of a mask that hold 1.
OnesOf(mask) ==
    UNION {{<<r, c>> : c \in {k \in 1..Len(mask.v[r]) : mask.v[r][k] = 1}} : r \in 1..Len(mask.v)}

CellsOf(mask) == UNION {{<<r, c>> : c \in 1..Len(mask.v[r])} : r \in 1..Len(mask.v)}

GtMaskOfMode == IF OnArray THEN out.m.missing_mask ELSE out.m.indicating_mask

C3_ModesAgree ==
    Fetched =>
        out.sample = IF OnArray
                     THEN _fetch_data_from_file(out.idx, out.m)
                     ELSE _fetch_data_from_array(out.idx, out.m)

\* The masker's contract: binary masks of the input's shape, pointwise disjoint.
MaskerContract(m) ==
    /\ \A r \in 1..Len(m.missing_mask.v) : \A c \in 1..Len(m.missing_mask.v[r]) :
           m.missing_mask.v[r][c] \in {0, 1}
    /\ \A r \in 1..Len(m.indicating_mask.v) : \A c \in 1..Len(m.indicating_mask.v[r]) :
           m.indicating_mask.v[r][c] \in {0, 1}
    /\ CellsOf(m.missing_mask) = CellsOf(m.X_intact)
    /\ CellsOf(m.indicating_mask) = CellsOf(m.X_intact)
    /\ OnesOf(m.missing_mask) \cap OnesOf(m.indicating_mask) = {}

\* C4: under the masker's contract every entry of observed_mask is 0 or 1 and
\* observed_mask is the pointwise OR of the masker's two masks.
C4_ObservedMask ==
    (Fetched /\ MaskerContract(out.m)) =>
        /\ CellsOf(out.sample[3]) = CellsOf(out.m.missing_mask)
        /\ \A rc \in CellsOf(out.sample[3]) :
              /\ out.sample[3].v[rc[1]][rc[2]] \in {0, 1}
              /\ out.sample[3].v[rc[1]][rc[2]] = 1 <=>
                    (\/ out.m.missing_mask.v[rc[1]][rc[2]] = 1
                     \/ out.m.indicating_mask.v[rc[1]][rc[2]] = 1)

C4_Witness ==
    /\ Fetched
    /\ OnArray
    /\ MaskerContract(out.m)
    /\ OnesOf(out.m.indicating_mask) # {}
    /\ OnesOf(out.m.missing_mask) # {}

\* A step that fetches, on one instance, the idx of the fetch before it, both
\* fetches returning a sample.
SameIdxAgain ==
    /\ out.status = "ok"
    /\ out'.status = "ok"
    /\ out'.inst = out.inst
    /\ out'.idx = out.idx

\* C5 as written: two consecutive fetches of the same idx agree on
\* time_points, on a defaulted for_pattern_mask and on cut_length.
C5_AgreeWithDefaultedMask ==
    [][SameIdxAgain =>
          /\ out'.sample[4] = out.sample[4]
          /\ out'.sample[7] = out.sample[7]
          /\ ("for_pattern_mask" \notin DOMAIN data => out'.sample[6] = out.sample[6])]_vars

\* C5 as amended: two consecutive fetches of the same idx agree on
\* time_points and cut_length, and on for_pattern_mask when the source supplies it.
C5_AgreeOnSourceFields ==
    [][SameIdxAgain =>
          /\ out'.sample[4] = out.sample[4]
          /\ out'.sample[7] = out.sample[7]
          /\ ("for_pattern_mask" \in DOMAIN data => out'.sample[6] = out.sample[6])]_vars

C5_Witness ==
    /\ repeated
    /\ Fetched
    /\ OnArray
    /\ "for_pattern_mask" \in DOMAIN data
    /\ "time_points" \notin DOMAIN data

\* C6: without a for_pattern_mask field in the source, for_pattern_mask is
\* the gt_mask at position 4 of the same sample; with the field, it is the
\* source's row for idx, whatever the masker returned.
C6_ForPatternMask ==
    Fetched =>
        IF "for_pattern_mask" \notin DOMAIN data
        THEN out.sample[6] = out.sample[5]
        ELSE out.sample[6] = SourceRowAs("for_pattern_mask", "float32")

C6_Witness ==
    /\ Fetched
    /\ OnFile
    /\ "for_pattern_mask" \in DOMAIN data
    /\ out.sample[6] # out.sample[5]

\* C7 as written: a fetch with idx outside 0 .. length - 1 fails with
\* IndexError and returns no sample.
C7_OutsideZeroToLenFails ==
    (out.status # "none" /\ ~(0 <= out.idx /\ out.idx < DatasetLen)) =>
        (out.status = "IndexError" /\ out.sample = <<>>)

\* C7 as amended: a fetch with idx >= length or idx < -length fails with
\* IndexError and returns no sample; idx in -length .. -1 counts from the end
\* and returns the sample of row length + idx, with idx itself at position 0.
C7_OutsidePythonRangeFails ==
    /\ (out.status # "none" /\ (out.idx >= DatasetLen \/ out.idx < -DatasetLen)) =>
           (out.status = "IndexError" /\ out.sample = <<>>)
    /\ (out.status # "none" /\ -DatasetLen <= out.idx /\ out.idx < 0) =>
           /\ out.status = "ok"
           /\ out.sample[1].v = << <<out.idx>> >>
           /\ out.sample[2].v = [s \in 1..NSteps |-> [f \in 1..NFeatures |->
                   IF <<s, f>> \in data["X"][DatasetLen + out.idx + 1].nan
                   THEN 0
                   ELSE data["X"][DatasetLen + out.idx + 1].v[s][f]]]

C7_Witness ==
    /\ out.status = "IndexError"
    /\ OnFile
    /\ out.idx = DatasetLen
    /\ out.sample = <<>>

\* C8 as written: a defaulted cut_length is an integer zero vector of the
\* step count; a cut_length of the source is cast to an integer type by the
\* in-memory path and to floating point by the file-backed path.
C8_CutLengthIntInMemory ==
    Fetched =>
        IF "cut_length" \notin DOMAIN data
        THEN /\ out.sample[7].dtype \in IntegerTypes
             /\ out.sample[7].v = << [s \in 1..NSteps |-> 0] >>
        ELSE /\ out.sample[7].v = SourceRow("cut_length").v
             /\ OnArray => out.sample[7].dtype \in IntegerTypes
             /\ OnFile => out.sample[7].dtype \in FloatTypes

\* C8 as amended: a defaulted cut_length is an integer zero vector of the
\* step count; a cut_length of the source is cast to floating point by both paths.
C8_CutLengthFloatInBoth ==
    Fetched =>
        IF "cut_length" \notin DOMAIN data
        THEN /\ out.sample[7].dtype \in IntegerTypes
             /\ out.sample[7].ndim = 1
             /\ out.sample[7].v = << [s \in 1..NSteps |-> 0] >>
        ELSE /\ out.sample[7].v = SourceRow("cut_length").v
             /\ out.sample[7].dtype \in FloatTypes

C8_Witness ==
    /\ Fetched
    /\ OnArray
    /\ "cut_length" \in DOMAIN data
    /\ out.idx = 1
    /\ out.sample[7].dtype = "float32"

\* C9: without a time_points field in the source, time_points is
\* 0, 1, ..., steps - 1 whatever idx and the masker's result; with the field
\* it is the source's timestamp row for idx.
C9_TimePoints ==
    Fetched =>
        IF "time_points" \notin DOMAIN data
        THEN /\ out.sample[4].ndim = 1
             /\ out.sample[4].v = << [s \in 1..NSteps |-> s - 1] >>
        ELSE out.sample[4] = SourceRowAs("time_points", "float32")

C9_Witness ==
    /\ Fetched
    /\ OnFile
    /\ "time_points" \notin DOMAIN data
    /\ out.idx = DatasetLen - 1
    /\ OnesOf(out.m.indicating_mask) # {}

\* C10: a file-backed instance has no handle before its first fetch, has one
\* after any fetch (one that fails too), opens at most once, never resets or
\* replaces an open handle, and a fetch on one instance leaves the handles of
\* the other instances alone.
C10_HandleLifecycle ==
    [][\A i \in live :
          /\ ~called[i] => file_handle[i] = NoHandle
          /\ called'[i] => (file_handle'[i].opened /\ file_handle'[i].owner = i)
          /\ opens'[i] <= 1
          /\ file_handle[i] # NoHandle => file_handle'[i] = file_handle[i]
          /\ file_handle'[i] # file_handle[i] =>
                /\ out'.inst = i
                /\ \A j \in Instances \ {i} : file_handle'[j] = file_handle[j]]_vars

C10_Witness ==
    /\ repeated
    /\ out.inst = "w2"
    /\ called["w1"]
    /\ file_handle["w1"].owner = "w1"
    /\ file_handle["w2"].owner = "w2"
    /\ opens["w1"] = 1
    /\ opens["w2"] = 1

====
